---------------------------- MODULE Spec2Model ----------------------------
(***************************************************************************)
(* Trial-to-crop windowing and streaming mini-batch pipeline of hgdecode:  *)
(* EEGDataset.crop_X / crop_y / crop_X_y / make_crops and the Keras        *)
(* Sequence EEGDataGenerator (hgdecode/classes.py).                        *)
(*                                                                         *)
(* Arrays are sequences.  A trial is a sequence of channels, a channel a   *)
(* sequence of samples; Python's 0-based positions are kept in the values  *)
(* (trial indices, next_to_unpack) and shifted by one only when a TLA+     *)
(* sequence is subscripted.                                                *)
(***************************************************************************)
EXTENDS Integers, Sequences, FiniteSets, TLC

\* ------------------------------------------------------------------ bounds
MaxTrials   == 2   \* trials in a recording / partition
MaxSamples  == 3   \* samples per trial
MaxBatch    == 3   \* batch_size
MaxCrops    == 3   \* n_crops argument of a direct crop_X call
MaxDraws   == 3   \* draws the global random state is followed for
MaxAxes     == 2   \* add_axis calls on one dataset

\* ------------------------------------------------------------ input values
ClassLabels   == {0, 1}     \* labels of the trials
ChannelCounts == {1, 2}     \* channels per trial
BatchIndices  == {0, 1}     \* index argument of __getitem__
Strides       == {1, 2}     \* crop_step

\* ----------------------------------------------------------- array helpers
Min(a, b) == IF a < b THEN a ELSE b
Max(a, b) == IF a > b THEN a ELSE b

\* Python normalisation of one slice bound against a length
SliceBound(i, len) == IF i < 0 THEN Max(i + len, 0) ELSE Min(i, len)

\* seq[init:stop] of a Python / numpy sequence (step 1): bounds are clamped,
\* never an error
PySlice(seq, init, stop) ==
    LET s == SliceBound(init, Len(seq))
        e == SliceBound(stop, Len(seq))
    IN  IF e <= s THEN << >> ELSE SubSeq(seq, s + 1, e)

\* seq[i] for a 0-based, in-range i
At(seq, i) == seq[i + 1]

\* numpy.ceil(a / b) cast to int, b > 0 (true division, then ceiling)
CeilDiv(a, b) == -((-a) \div b)

\* numpy.floor(a / b) cast to int, b > 0
FloorDiv(a, b) == a \div b

\* sample p of channel c of trial t (all 0-based): the test signal, chosen
\* injective so that a window tells which trial and offset it was cut from
SampleValue(t, c, p) == 100 * t + 10 * c + p

TrialData(t, h, w) ==
    [c \in 1..h |-> [p \in 1..w |-> SampleValue(t, c - 1, p - 1)]]

\* the trial a window was cut from, and the offset of its first sample
TrialOfCrop(win)  == win[1][1] \div 100
OffsetOfCrop(win) == win[1][1] % 10

\* ------------------------------------------------------ EEGDataset.crop_X
\* new_X[i, ...] = X[:, init:stop]: numpy assignment of an (h, k) slice into
\* an (h, W) row block: equal widths copy, width 1 broadcasts, anything else
\* raises ValueError
AssignFits(k, W) == k = W \/ k = 1

BroadcastRow(row, W) ==
    IF Len(row) = W THEN row ELSE [j \in 1..W |-> row[1]]

RECURSIVE crop_X_loop(_, _, _, _, _, _, _)
crop_X_loop(X, i, n_crops, init, stop, crop_step, new_X) ==
    IF i >= n_crops
      THEN [err |-> "none", val |-> new_X]
      ELSE LET W     == stop - init
               slice == [c \in 1..Len(X) |-> PySlice(X[c], init, stop)]
               k     == Len(slice[1])
           IN  IF ~AssignFits(k, W)
                 THEN [err |-> "ValueError", val |-> << >>]
                 ELSE crop_X_loop(X, i + 1, n_crops,
                                  init + crop_step, stop + crop_step,
                                  crop_step,
                                  Append(new_X,
                                         [c \in 1..Len(X) |->
                                             BroadcastRow(slice[c], W)]))

\* init and stop advance by the window instead of the step
crop_X_step_is_window(X, n_crops, crop_sample_size, crop_step) ==
    IF n_crops < 0 \/ crop_sample_size < 0
      THEN [err |-> "ValueError", val |-> << >>]
      ELSE crop_X_loop(X, 0, n_crops, 0, crop_sample_size, crop_sample_size,
                       << >>)

crop_X(X, n_crops, crop_sample_size, crop_step) ==
    IF n_crops < 0 \/ crop_sample_size < 0
      THEN [err |-> "ValueError", val |-> << >>]      \* zeros(negative dim)
      ELSE crop_X_loop(X, 0, n_crops, 0, crop_sample_size, crop_step, << >>)

\* ------------------------------------------------------ EEGDataset.crop_y
crop_y(y, n_crops) ==
    IF n_crops < 0
      THEN [err |-> "ValueError", val |-> << >>]      \* repeat(negative)
      ELSE [err |-> "none", val |-> [i \in 1..n_crops |-> y]]


\* --------------------------------------------------- EEGDataset.crop_X_y
\* X.shape[1], X.shape[2] of a partition.  An empty partition keeps no trial
\* to read them from; crop_X_y's result for d = 0 does not depend on them
ShapeH(X) == IF Len(X) = 0 THEN 0 ELSE Len(X[1])
ShapeW(X) == IF Len(X) = 0 \/ Len(X[1]) = 0 THEN 0 ELSE Len(X[1][1])

\* one window more than fits when the step divides w - crop_sample_size + 1
crop_X_y_n_crops_plus_one(w, crop_sample_size, crop_step) ==
    FloorDiv(w - crop_sample_size + 1, crop_step) + 1

\* floor where the source takes the ceiling
crop_X_y_n_crops_floor(w, crop_sample_size, crop_step) ==
    FloorDiv(w - crop_sample_size + 1, crop_step)

\* n_crops = int(ceil((w - crop_sample_size + 1) / crop_step))
crop_X_y_n_crops(w, crop_sample_size, crop_step) ==
    CeilDiv(w - crop_sample_size + 1, crop_step)

RECURSIVE crop_X_y_loop(_, _, _, _, _, _, _, _)
crop_X_y_loop(X, y, i, n_crops, crop_sample_size, crop_step, new_X, new_y) ==
    IF i >= Len(X)
      THEN [err |-> "none", X |-> new_X, y |-> new_y]
      ELSE LET cx == crop_X(At(X, i), n_crops, crop_sample_size, crop_step)
               cy == crop_y(At(y, i), n_crops)
           IN  IF cx.err # "none" \/ cy.err # "none"
                 THEN [err |-> "ValueError", X |-> << >>, y |-> << >>]
                 ELSE crop_X_y_loop(X, y, i + 1, n_crops,
                                    crop_sample_size, crop_step,
                                    new_X \o cx.val, new_y \o cy.val)

\* the trials are cropped from the last to the first
crop_X_y_last_trial_first(X, y, crop_sample_size, crop_step) ==
    LET d       == Len(X)
        w       == ShapeW(X)
        n_crops == crop_X_y_n_crops(w, crop_sample_size, crop_step)
        new_d   == n_crops * d
    IN  IF crop_step = 0
          THEN [err |-> "ZeroDivisionError", X |-> << >>, y |-> << >>]
        ELSE IF new_d < 0 \/ crop_sample_size < 0
          THEN [err |-> "ValueError", X |-> << >>, y |-> << >>]
        ELSE crop_X_y_loop([i \in 1..d |-> X[d + 1 - i]],
                           [i \in 1..d |-> y[d + 1 - i]],
                           0, n_crops, crop_sample_size, crop_step,
                           << >>, << >>)

crop_X_y(X, y, crop_sample_size, crop_step) ==
    LET d       == Len(X)
        w       == ShapeW(X)
        n_crops == crop_X_y_n_crops(w, crop_sample_size, crop_step)
        new_d   == n_crops * d
    IN  IF crop_step = 0
          THEN [err |-> "ZeroDivisionError", X |-> << >>, y |-> << >>]
        ELSE IF new_d < 0 \/ crop_sample_size < 0
          THEN [err |-> "ValueError", X |-> << >>, y |-> << >>]
        ELSE crop_X_y_loop(X, y, 0, n_crops, crop_sample_size, crop_step,
                           << >>, << >>)

\* -------------------------------------------- keras.utils.to_categorical
\* one row per label, a single 1 in column label; a label outside
\* 0..num_classes-1 raises IndexError (labels are non-negative here)
OneHot(label, num_classes) ==
    [k \in 1..num_classes |-> IF k - 1 = label THEN 1 ELSE 0]

\* max(y) of a non-empty label array
MaxLabel(y) == CHOOSE m \in {y[j] : j \in 1..Len(y)} : \A j \in 1..Len(y) : y[j] <= m

\* "if not num_classes: num_classes = np.max(y) + 1": a num_classes of 0 is
\* taken as omitted, and np.max of an empty array raises ValueError
to_categorical(y, num_classes) ==
    IF num_classes = 0 /\ Len(y) = 0
      THEN [err |-> "ValueError", val |-> << >>]
    ELSE LET n == IF num_classes = 0 THEN MaxLabel(y) + 1 ELSE num_classes
         IN  IF \E j \in 1..Len(y) : y[j] >= n
               THEN [err |-> "IndexError", val |-> << >>]
               ELSE [err |-> "none",
                     val |-> [j \in 1..Len(y) |-> OneHot(y[j], n)]]

\* len(unique(y))
n_unique(y) == Cardinality({y[j] : j \in 1..Len(y)})

\* ------------------------------------------------------------------ state
VARIABLES
    gen,       \* the EEGDataGenerator instance: a record of its fields
    err,       \* exception raised by the last operation on gen, or "none"
    ret,       \* (X, y) returned by the last __getitem__, [X |-> <<>>, ...] if none
    lastOp,    \* the last operation run on gen
    calls,     \* __getitem__ calls since the last on_epoch_end / __init__
    epoch,     \* 0 until the trainer's first on_epoch_end, 1 afterwards
    thr,       \* the threads inside __getitem__ of gen: position and locals
    gen2,      \* a second EEGDataGenerator instance of the same process
    rng,       \* numpy's global random state: the draws it has yet to give
    resets,    \* <<on_epoch_end calls on gen, on_epoch_end calls on gen2>>
    raw,       \* the epoched recording a dataset was split from: [X, y]
    ds,        \* the EEGDataset instance: a record of its six arrays
    dsErr,     \* exception raised by the last operation on ds, or "none"
    dsOp,      \* the last operation run on ds
    dsArgs,    \* the arguments of that operation (a tuple of numbers)
    axes,      \* add_axis calls made on ds
    onehot,    \* TRUE once to_categorical has rewritten a label array of ds
    call,      \* arguments of the last direct call of a static crop function
    result     \* what that call returned

vars == <<gen, err, ret, lastOp, calls, epoch, thr, gen2, rng, resets,
          raw, ds, dsErr, dsOp, dsArgs, axes, onehot, call, result>>

peerVars == <<thr, gen2, rng, resets>>
genVars  == <<gen, err, ret, lastOp, calls, epoch, peerVars>>
dsVars   == <<raw, ds, dsErr, dsOp, dsArgs, axes, onehot>>
callVars == <<call, result>>

NoneArg == -1      \* n_classes=None

NoBatch == [X |-> << >>, y |-> << >>]

\* arange(n)
arange(n) == [i \in 1..n |-> i - 1]

\* the outcomes of random.shuffle on arange(n): every permutation
shuffle_outcomes(n) ==
    {p \in [1..n -> 0..(n - 1)] : \A i, j \in 1..n : p[i] = p[j] => i = j}

\* ------------------------------------------- EEGDataGenerator.on_epoch_end
\* next_to_unpack is not reset
on_epoch_end_keeps_cursor(self, shuffled) ==
    [self EXCEPT !.indexes = IF self.shuffle THEN shuffled
                             ELSE arange(self.n_trials)]

\* the shuffle flag is not looked at
on_epoch_end_always_shuffles(self, shuffled) ==
    [self EXCEPT !.indexes = shuffled, !.next_to_unpack = 0]

\* the crop count grows with every epoch
on_epoch_end_recounts(self, shuffled) ==
    [self EXCEPT !.indexes = IF self.shuffle THEN shuffled
                             ELSE arange(self.n_trials),
                 !.next_to_unpack = 0,
                 !.n_crops = self.n_crops + self.n_crops_for_trial]

\* shuffled is the array random.shuffle leaves behind
on_epoch_end(self, shuffled) ==
    [self EXCEPT !.indexes = IF self.shuffle THEN shuffled
                             ELSE arange(self.n_trials),
                 !.next_to_unpack = 0]

\* ------------------------------------------- EEGDataGenerator.unpack_trial
\* the label is read at the cursor, not at the trial the cursor points to
unpack_trial_label_at_cursor(self) ==
    IF self.next_to_unpack >= Len(self.indexes)
      THEN [self |-> self, err |-> "IndexError@indexes"]
      ELSE
        LET t  == At(self.indexes, self.next_to_unpack)
            cx == crop_X(At(self.X, t), self.n_crops_for_trial,
                         self.crop_sample_size, self.crop_step)
            cy == crop_y(At(self.y, self.next_to_unpack),
                         self.n_crops_for_trial)
        IN  IF cx.err # "none" \/ cy.err # "none"
              THEN [self |-> self, err |-> "ValueError"]
            ELSE IF self.next_to_unpack = 0
              THEN [self |-> [self EXCEPT !.crop_stack_X = cx.val,
                                          !.crop_stack_y = cy.val,
                                          !.next_to_unpack = 1],
                    err  |-> "none"]
              ELSE [self |-> [self EXCEPT
                                !.crop_stack_X = self.crop_stack_X \o cx.val,
                                !.crop_stack_y = self.crop_stack_y \o cy.val,
                                !.next_to_unpack = self.next_to_unpack + 1],
                    err  |-> "none"]

\* the stack is never recreated: crops are appended at every unpack
unpack_trial_append(self) ==
    IF self.next_to_unpack >= Len(self.indexes)
      THEN [self |-> self, err |-> "IndexError@indexes"]
      ELSE
        LET t  == At(self.indexes, self.next_to_unpack)
            cx == crop_X(At(self.X, t), self.n_crops_for_trial,
                         self.crop_sample_size, self.crop_step)
            cy == crop_y(At(self.y, t), self.n_crops_for_trial)
        IN  IF cx.err # "none" \/ cy.err # "none"
              THEN [self |-> self, err |-> "ValueError"]
              ELSE [self |-> [self EXCEPT
                                !.crop_stack_X = self.crop_stack_X \o cx.val,
                                !.crop_stack_y = self.crop_stack_y \o cy.val,
                                !.next_to_unpack = self.next_to_unpack + 1],
                    err  |-> "none"]

unpack_trial(self) ==
    IF self.next_to_unpack >= Len(self.indexes)
      THEN [self |-> self, err |-> "IndexError@indexes"]
      ELSE
        LET t  == At(self.indexes, self.next_to_unpack)
            cx == crop_X(At(self.X, t), self.n_crops_for_trial,
                         self.crop_sample_size, self.crop_step)
            cy == crop_y(At(self.y, t), self.n_crops_for_trial)
        IN  IF cx.err # "none" \/ cy.err # "none"
              THEN [self |-> self, err |-> "ValueError"]
            ELSE IF self.next_to_unpack = 0
              THEN \* first unpack (re)creates the stack
                   [self |-> [self EXCEPT !.crop_stack_X = cx.val,
                                          !.crop_stack_y = cy.val,
                                          !.next_to_unpack = 1],
                    err  |-> "none"]
              ELSE [self |-> [self EXCEPT
                                !.crop_stack_X = self.crop_stack_X \o cx.val,
                                !.crop_stack_y = self.crop_stack_y \o cy.val,
                                !.next_to_unpack = self.next_to_unpack + 1],
                    err  |-> "none"]

\* --------------------------------------------- EEGDataGenerator.__init__
gen_n_crops_for_trial(n_samples, crop_sample_size, crop_step) ==
    CeilDiv(n_samples - crop_sample_size + 1, crop_step)

__init__(X, y, batch_size, n_classes, crop_sample_size, crop_step, shuffle, shuffled) ==
    LET nct   == gen_n_crops_for_trial(ShapeW(X), crop_sample_size, crop_step)
        self0 == [X                 |-> X,
                  y                 |-> y,
                  batch_size        |-> batch_size,
                  n_trials          |-> Len(X),
                  n_channels        |-> ShapeH(X),
                  n_samples         |-> ShapeW(X),
                  n_classes         |-> IF n_classes = NoneArg
                                          THEN n_unique(y) ELSE n_classes,
                  crop_sample_size  |-> crop_sample_size,
                  crop_step         |-> crop_step,
                  n_crops_for_trial |-> nct,
                  n_crops           |-> nct * Len(X),
                  shuffle           |-> shuffle,
                  current_batch     |-> NoneArg,
                  indexes           |-> << >>,
                  next_to_unpack    |-> 0,
                  crop_stack_X      |-> << >>,
                  crop_stack_y      |-> << >>]
    IN  unpack_trial(on_epoch_end(self0, shuffled))

\* ---------------------------------------------- EEGDataGenerator.__len__
\* the batch count rounded up: a short last batch is counted
len_ceil(self) == CeilDiv(self.n_crops, self.batch_size)

__len__(self) == FloorDiv(self.n_crops, self.batch_size)

\* ------------------------------------ EEGDataGenerator.__data_generation
\* while len(self.crop_stack_y) < self.batch_size: self.unpack_trial()
\* an if where the source has a while: one trial at most is unpacked
refill_once(self) ==
    IF Len(self.crop_stack_y) >= self.batch_size
      THEN [self |-> self, err |-> "none"]
      ELSE unpack_trial(self)

\* the loop runs while the stack holds no more than batch_size crops
RECURSIVE refill_ahead(_)
refill_ahead(self) ==
    IF Len(self.crop_stack_y) > self.batch_size
      THEN [self |-> self, err |-> "none"]
      ELSE LET u == unpack_trial(self)
           IN  IF u.err # "none" THEN u ELSE refill_ahead(u.self)

RECURSIVE refill(_)
refill(self) ==
    IF Len(self.crop_stack_y) >= self.batch_size
      THEN [self |-> self, err |-> "none"]
      ELSE LET u == unpack_trial(self)
           IN  IF u.err # "none" THEN u ELSE refill(u.self)

\* only crop_stack_X is cut down; the labels stay on their stack
data_generation_cuts_X_only(self) ==
    LET r == refill(self)
    IN  IF r.err # "none"
          THEN [self |-> r.self, err |-> r.err, X |-> << >>, y |-> << >>]
          ELSE
            LET s0   == r.self
                X    == PySlice(s0.crop_stack_X, 0, s0.batch_size)
                y    == PySlice(s0.crop_stack_y, 0, s0.batch_size)
                s1   == [s0 EXCEPT
                           !.crop_stack_X = PySlice(s0.crop_stack_X,
                                                    s0.batch_size,
                                                    Len(s0.crop_stack_y))]
                X4   == [j \in 1..Len(X) |-> << X[j] >>]
                cat  == to_categorical(y, s0.n_classes)
            IN  IF cat.err # "none"
                  THEN [self |-> s1, err |-> "IndexError@to_categorical",
                        X |-> << >>, y |-> << >>]
                  ELSE [self |-> s1, err |-> "none", X |-> X4, y |-> cat.val]

__data_generation(self) ==
    LET r == refill(self)
    IN  IF r.err # "none"
          THEN [self |-> r.self, err |-> r.err, X |-> << >>, y |-> << >>]
          ELSE
            LET s0   == r.self
                X    == PySlice(s0.crop_stack_X, 0, s0.batch_size)
                y    == PySlice(s0.crop_stack_y, 0, s0.batch_size)
                s1   == [s0 EXCEPT
                           !.crop_stack_X = PySlice(s0.crop_stack_X,
                                                    s0.batch_size,
                                                    Len(s0.crop_stack_y)),
                           !.crop_stack_y = PySlice(s0.crop_stack_y,
                                                    s0.batch_size,
                                                    Len(s0.crop_stack_y))]
                X4   == [j \in 1..Len(X) |-> << X[j] >>]   \* X[:, newaxis, ...]
                cat  == to_categorical(y, s0.n_classes)
            IN  IF cat.err # "none"
                  THEN [self |-> s1, err |-> "IndexError@to_categorical",
                        X |-> << >>, y |-> << >>]
                  ELSE [self |-> s1, err |-> "none", X |-> X4, y |-> cat.val]

\* ------------------------------------------ EEGDataGenerator.__getitem__
\* batch 0 starts a new traversal by itself
getitem_resets_at_zero(self, index) ==
    IF index = 0
      THEN __data_generation(
               on_epoch_end([self EXCEPT !.current_batch = index],
                            arange(self.n_trials)))
      ELSE __data_generation([self EXCEPT !.current_batch = index])

\* the index is honoured: a batch is skipped to reach an index above 0
getitem_seeks(self, index) ==
    LET s0 == [self EXCEPT !.current_batch = index]
        g  == __data_generation(s0)
    IN  IF index = 0 \/ g.err # "none" THEN g ELSE __data_generation(g.self)

__getitem__(self, index) ==
    __data_generation([self EXCEPT !.current_batch = index])

\* ---- the statements of __data_generation one by one, for calls that
\* ---- overlap: the batch is read with the index array arange(0, batch_size)
\* ---- (an index past the end raises IndexError), then the stack is cut
\* ---- down to the entries arange(batch_size, len(self.crop_stack_y))
\* the batch is read from the end of the stack
read_batch_from_tail(self) ==
    IF Len(self.crop_stack_X) < self.batch_size
         \/ Len(self.crop_stack_y) < self.batch_size
      THEN [err |-> "IndexError", X |-> << >>, y |-> << >>]
      ELSE [err |-> "none",
            X |-> SubSeq(self.crop_stack_X,
                         Len(self.crop_stack_X) - self.batch_size + 1,
                         Len(self.crop_stack_X)),
            y |-> SubSeq(self.crop_stack_y,
                         Len(self.crop_stack_y) - self.batch_size + 1,
                         Len(self.crop_stack_y))]

read_batch(self) ==
    IF Len(self.crop_stack_X) < self.batch_size
         \/ Len(self.crop_stack_y) < self.batch_size
      THEN [err |-> "IndexError", X |-> << >>, y |-> << >>]
      ELSE [err |-> "none",
            X |-> SubSeq(self.crop_stack_X, 1, self.batch_size),
            y |-> SubSeq(self.crop_stack_y, 1, self.batch_size)]

pop_stack(self) ==
    [self EXCEPT
       !.crop_stack_X = PySlice(self.crop_stack_X, self.batch_size,
                                Len(self.crop_stack_y)),
       !.crop_stack_y = PySlice(self.crop_stack_y, self.batch_size,
                                Len(self.crop_stack_y))]

\* ------------------------------------------ EEGDataset.from_epo_to_dataset
\* validation_frac is num/den; floor(train_len * validation_frac)
ValidationFracs == {<<1, 5>>, <<1, 2>>}

\* X[indexes, ...]: fancy indexing with an index array
Take(X, indexes) == [k \in 1..Len(indexes) |-> At(X, indexes[k])]

\* only the train pair is compared
EEGDataset_asserts_train_only(epo_train_x, epo_train_y, epo_valid_x, epo_valid_y, epo_test_x, epo_test_y) ==
    IF Len(epo_train_x) # Len(epo_train_y)
      THEN [err |-> "AssertionError",
            self |-> [X_train |-> << >>, y_train |-> << >>,
                      X_valid |-> << >>, y_valid |-> << >>,
                      X_test  |-> << >>, y_test  |-> << >>]]
      ELSE [err |-> "none",
            self |-> [X_train |-> epo_train_x, y_train |-> epo_train_y,
                      X_valid |-> epo_valid_x, y_valid |-> epo_valid_y,
                      X_test  |-> epo_test_x,  y_test  |-> epo_test_y]]

EEGDataset(epo_train_x, epo_train_y, epo_valid_x, epo_valid_y, epo_test_x, epo_test_y) ==
    IF \/ Len(epo_train_x) # Len(epo_train_y)
       \/ Len(epo_valid_x) # Len(epo_valid_y)
       \/ Len(epo_test_x) # Len(epo_test_y)
      THEN [err |-> "AssertionError",
            self |-> [X_train |-> << >>, y_train |-> << >>,
                      X_valid |-> << >>, y_valid |-> << >>,
                      X_test  |-> << >>, y_test  |-> << >>]]
      ELSE [err |-> "none",
            self |-> [X_train |-> epo_train_x, y_train |-> epo_train_y,
                      X_valid |-> epo_valid_x, y_valid |-> epo_valid_y,
                      X_test  |-> epo_test_x,  y_test  |-> epo_test_y]]

\* the valid window starts at the train_len passed in, not the adjusted one
from_epo_valid_after_train_len0(epo, train_len0, test_len, validation_frac) ==
    LET tot_len   == Len(epo.y)
        valid_len == FloorDiv(train_len0 * validation_frac[1],
                              validation_frac[2])
        train_len == train_len0 - valid_len
        indexes   == arange(tot_len)
        train_indexes == PySlice(indexes, 0, train_len)
        valid_indexes == PySlice(indexes, train_len0, train_len0 + valid_len)
        test_indexes  == PySlice(indexes, -test_len, tot_len)
    IN  EEGDataset(Take(epo.X, train_indexes), Take(epo.y, train_indexes),
                   Take(epo.X, valid_indexes), Take(epo.y, valid_indexes),
                   Take(epo.X, test_indexes),  Take(epo.y, test_indexes))

from_epo_to_dataset(epo, train_len0, test_len, validation_frac) ==
    LET tot_len       == Len(epo.y)
        valid_len     == FloorDiv(train_len0 * validation_frac[1],
                                  validation_frac[2])
        train_len     == train_len0 - valid_len
        indexes       == arange(tot_len)
        train_indexes == PySlice(indexes, 0, train_len)
        valid_indexes == PySlice(indexes, train_len, train_len + valid_len)
        test_indexes  == PySlice(indexes, -test_len, tot_len)
    IN  EEGDataset(Take(epo.X, train_indexes), Take(epo.y, train_indexes),
                   Take(epo.X, valid_indexes), Take(epo.y, valid_indexes),
                   Take(epo.X, test_indexes),  Take(epo.y, test_indexes))

\* ------------------------------------------------ EEGDataset.make_crops
\* the test partition is cropped from the valid arrays
make_crops_test_from_valid(self, crop_sample_size, crop_step) ==
  IF crop_sample_size = NoneArg THEN [self |-> self, err |-> "none"] ELSE
    LET tr == crop_X_y(self.X_train, self.y_train, crop_sample_size, crop_step)
        s1 == [self EXCEPT !.X_train = tr.X, !.y_train = tr.y]
        va == crop_X_y(self.X_valid, self.y_valid, crop_sample_size, crop_step)
        s2 == [s1 EXCEPT !.X_valid = va.X, !.y_valid = va.y]
        s3 == [s2 EXCEPT !.X_test = va.X, !.y_test = va.y]
    IN  IF tr.err # "none" THEN [self |-> self, err |-> tr.err]
        ELSE IF va.err # "none" THEN [self |-> s1, err |-> va.err]
        ELSE [self |-> s3, err |-> "none"]

make_crops(self, crop_sample_size, crop_step) ==
  IF crop_sample_size = NoneArg THEN [self |-> self, err |-> "none"] ELSE
    LET tr == crop_X_y(self.X_train, self.y_train, crop_sample_size, crop_step)
        s1 == [self EXCEPT !.X_train = tr.X, !.y_train = tr.y]
        va == crop_X_y(self.X_valid, self.y_valid, crop_sample_size, crop_step)
        s2 == [s1 EXCEPT !.X_valid = va.X, !.y_valid = va.y]
        te == crop_X_y(self.X_test, self.y_test, crop_sample_size, crop_step)
        s3 == [s2 EXCEPT !.X_test = te.X, !.y_test = te.y]
    IN  IF tr.err # "none" THEN [self |-> self, err |-> tr.err]
        ELSE IF va.err # "none" THEN [self |-> s1, err |-> va.err]
        ELSE IF te.err # "none" THEN [self |-> s2, err |-> te.err]
        ELSE [self |-> s3, err |-> "none"]

\* -------------------------------------------------- EEGDataset.add_axis
\* X[:, newaxis, ...]: every entry of a partition is wrapped in an axis of
\* length 1
NewAxis(X) == [k \in 1..Len(X) |-> << X[k] >>]

add_axis(self) ==
    [self EXCEPT !.X_train = NewAxis(@), !.X_valid = NewAxis(@),
                 !.X_test = NewAxis(@)]

\* --------------------------------------------- EEGDataset.to_categorical
\* the three label arrays are rewritten one after the other; an exception
\* leaves the ones already rewritten in place
\* the distinct labels are counted over the three partitions
EEGDataset_n_classes_all_partitions(self, n_classes) ==
    IF n_classes = NoneArg
      THEN n_unique(self.y_train \o self.y_valid \o self.y_test)
      ELSE n_classes

EEGDataset_n_classes(self, n_classes) ==
    IF n_classes = NoneArg THEN n_unique(self.y_train) ELSE n_classes

EEGDataset_to_categorical(self, n_classes) ==
    LET n  == EEGDataset_n_classes(self, n_classes)
        tr == to_categorical(self.y_train, n)
        s1 == [self EXCEPT !.y_train = tr.val]
        va == to_categorical(self.y_valid, n)
        s2 == [s1 EXCEPT !.y_valid = va.val]
        te == to_categorical(self.y_test, n)
        s3 == [s2 EXCEPT !.y_test = te.val]
    IN  IF tr.err # "none" THEN [self |-> self, err |-> tr.err]
        ELSE IF va.err # "none" THEN [self |-> s1, err |-> va.err]
        ELSE IF te.err # "none" THEN [self |-> s2, err |-> te.err]
        ELSE [self |-> s3, err |-> "none"]

\* ======================================================== the state machine
\* no generator / no dataset / no direct call in this run
NoGen ==
    [X |-> << >>, y |-> << >>, batch_size |-> 0, n_trials |-> 0,
     n_channels |-> 0, n_samples |-> 0, n_classes |-> 0,
     crop_sample_size |-> 0, crop_step |-> 0, n_crops_for_trial |-> 0,
     n_crops |-> 0, shuffle |-> FALSE, current_batch |-> NoneArg,
     indexes |-> << >>, next_to_unpack |-> 0,
     crop_stack_X |-> << >>, crop_stack_y |-> << >>]

NoDataset ==
    [X_train |-> << >>, y_train |-> << >>, X_valid |-> << >>,
     y_valid |-> << >>, X_test |-> << >>, y_test |-> << >>]

NoRaw    == [X |-> << >>, y |-> << >>]
NoCall   == [fn |-> "none", X |-> << >>, y |-> << >>, label |-> 0,
             n_crops |-> 0, crop_sample_size |-> 0, crop_step |-> 0]
NoResult == [err |-> "none", X |-> << >>, y |-> << >>, n |-> 0]

\* a recording of d trials of h channels and w samples, labelled by y
Recording(d, h, w) == [t \in 1..d |-> TrialData(t - 1, h, w)]
Labels(d)          == [1..d -> ClassLabels]
\* crop_sample_size for trials of w samples: every window that fits, the
\* first that does not (no crop) and the next (a negative crop count)
WindowSizes(w)     == 1..(w + 2)
GenChannels        == {2}

\* one thread, one generator, no draw from the global random state
PeerIdle == /\ thr = << >> /\ gen2 = NoGen /\ rng = << >>
            /\ resets = <<0, 0>>
GenIdle  == /\ gen = NoGen /\ err = "none" /\ ret = NoBatch
            /\ lastOp = "none" /\ calls = 0 /\ epoch = 0
            /\ PeerIdle
DsIdle   == /\ raw = NoRaw /\ ds = NoDataset /\ dsErr = "none"
            /\ dsOp = "none" /\ dsArgs = << >> /\ axes = 0 /\ onehot = FALSE
CallIdle == /\ call = NoCall /\ result = NoResult

\* DLExperiment.train with data_generator=True: a generator is built over
\* the train partition
GenBuilt ==
    /\ \E d \in 1..MaxTrials, h \in GenChannels, w \in 1..MaxSamples,
          batch_size \in 1..MaxBatch,
          n_classes \in {NoneArg, Cardinality(ClassLabels)},
          crop_step \in Strides, shuffle \in BOOLEAN :
         \E y \in Labels(d), crop_sample_size \in WindowSizes(w),
            shuffled \in shuffle_outcomes(d) :
            LET c == __init__(Recording(d, h, w), y, batch_size, n_classes,
                              crop_sample_size, crop_step, shuffle, shuffled)
            IN  /\ gen = c.self
                /\ err = c.err
    /\ ret = NoBatch /\ lastOp = "__init__"
    /\ calls = 0 /\ epoch = 0
    /\ DsIdle /\ CallIdle

GenInit == GenBuilt /\ PeerIdle

\* DLExperiment.train with data_generator=False: the dataset cut from the
\* recording is cropped eagerly
DsInit ==
    /\ \E d \in 0..MaxTrials, h \in GenChannels, w \in 1..MaxSamples :
         \E y \in Labels(d), train_len \in 0..d, test_len \in 0..d,
            validation_frac \in ValidationFracs :
            LET epo == [X |-> Recording(d, h, w), y |-> y]
                c   == from_epo_to_dataset(epo, train_len, test_len,
                                           validation_frac)
            IN  /\ raw = epo
                /\ ds = c.self
                /\ dsErr = c.err
                /\ dsArgs = <<train_len, test_len, validation_frac[1],
                              validation_frac[2]>>
    /\ dsOp = "from_epo_to_dataset"
    /\ axes = 0 /\ onehot = FALSE
    /\ GenIdle /\ CallIdle

\* a dataset built directly from six arrays; the valid and test labels
\* alternate 0, 1, ...
AltLabels(d) == [i \in 1..d |-> (i - 1) % 2]

DsNew ==
    /\ \E h \in GenChannels, w \in {MaxSamples},
          n1 \in 0..MaxTrials, n2 \in 0..MaxTrials, n3 \in 0..MaxTrials,
          m1 \in 0..MaxTrials, m2 \in 0..MaxTrials, m3 \in 0..MaxTrials :
         \E y \in Labels(m1) :
            LET c == EEGDataset(Recording(n1, h, w), y,
                                Recording(n2, h, w), AltLabels(m2),
                                Recording(n3, h, w), AltLabels(m3))
            IN  /\ ds = c.self
                /\ dsErr = c.err
                /\ dsArgs = <<n1, m1, n2, m2, n3, m3>>
    /\ raw = NoRaw
    /\ dsOp = "__init__"
    /\ axes = 0 /\ onehot = FALSE
    /\ GenIdle /\ CallIdle

\* a dataset exists and its last operation returned: DLExperiment.train
\* catches no exception, so nothing runs on a dataset after one
ds_constructed == dsOp # "none" /\ dsErr = "none"

constructed == lastOp # "none" /\ ~(lastOp = "__init__" /\ err # "none")

GetItem(index) ==
    /\ constructed
    /\ LET g == __getitem__(gen, index)
       IN  /\ gen' = g.self
           /\ err' = g.err
           /\ ret' = [X |-> g.X, y |-> g.y]
    /\ lastOp' = "__getitem__"
    /\ calls' = IF calls <= __len__(gen) THEN calls + 1 ELSE calls
    /\ UNCHANGED <<epoch, peerVars, dsVars, callVars>>

OnEpochEnd ==
    /\ constructed
    /\ \E shuffled \in IF gen.shuffle THEN shuffle_outcomes(gen.n_trials)
                                      ELSE {arange(gen.n_trials)} :
          gen' = on_epoch_end(gen, shuffled)
    /\ err' = "none"
    /\ ret' = NoBatch
    /\ lastOp' = "on_epoch_end"
    /\ calls' = 0
    /\ epoch' = 1
    /\ UNCHANGED <<peerVars, dsVars, callVars>>

\* make_crops is called on 3-D partitions with integer labels, as
\* DLExperiment.train does: before add_axis and to_categorical
MakeCrops ==
    /\ ds_constructed /\ axes = 0 /\ ~onehot
    /\ \E crop_sample_size \in WindowSizes(MaxSamples), crop_step \in Strides :
          LET m == make_crops(ds, crop_sample_size, crop_step)
          IN  /\ ds' = m.self
              /\ dsErr' = m.err
              /\ dsArgs' = <<crop_sample_size, crop_step>>
    /\ dsOp' = "make_crops"
    /\ UNCHANGED <<raw, axes, onehot, genVars, callVars>>

AddAxis ==
    /\ ds_constructed /\ axes < MaxAxes
    /\ ds' = add_axis(ds)
    /\ dsErr' = "none"
    /\ dsOp' = "add_axis"
    /\ dsArgs' = << >>
    /\ axes' = axes + 1
    /\ UNCHANGED <<raw, onehot, genVars, callVars>>

\* to_categorical is called on integer labels
ToCategorical ==
    /\ ds_constructed /\ ~onehot
    /\ \E n_classes \in {NoneArg, Cardinality(ClassLabels)} :
          LET m == EEGDataset_to_categorical(ds, n_classes)
          IN  /\ ds' = m.self
              /\ dsErr' = m.err
              /\ dsArgs' = <<n_classes>>
              /\ onehot' = (to_categorical(ds.y_train,
                                 EEGDataset_n_classes(ds, n_classes)).err
                                = "none")
    /\ dsOp' = "to_categorical"
    /\ UNCHANGED <<raw, axes, genVars, callVars>>

\* ---- any caller of one generator: batches and epoch ends in any order
Init == GenInit

Next == (\E index \in BatchIndices : GetItem(index)) \/ OnEpochEnd

Spec == Init /\ [][Next]_vars

\* ---- a caller that asks for at most len(generator) batches between two
\* ---- epoch ends, and may end an epoch early
BoundedGetItem(index) ==
    constructed /\ calls < __len__(gen) /\ GetItem(index)

NextAtMost == (\E index \in BatchIndices : BoundedGetItem(index)) \/ OnEpochEnd

SpecAtMost == Init /\ [][NextAtMost]_vars

\* ---- DLExperiment.train: either fit_generator drives the generator (every
\* ---- epoch is len(generator) batches, in any index order, then
\* ---- on_epoch_end), or the dataset is cropped eagerly
EpochGetItem(index) ==
    constructed /\ calls < __len__(gen) /\ GetItem(index)

EpochEnd == constructed /\ calls = __len__(gen) /\ OnEpochEnd

InitTrain == GenInit \/ DsInit

NextTrain ==
    (\E index \in BatchIndices : EpochGetItem(index)) \/ EpochEnd \/ MakeCrops

SpecTrain == InitTrain /\ [][NextTrain]_vars

\* ---- the life of one EEGDataset: split from a recording or built from six
\* ---- arrays, then cropped, given its channel axis and one-hot encoded
InitData == DsInit \/ DsNew

NextData == MakeCrops \/ AddAxis \/ ToCategorical

SpecData == InitData /\ [][NextData]_vars

\* ---- two threads call __getitem__ on one generator, as Keras' workers do
\* ---- on a Sequence they share; each runs the statements of
\* ---- __data_generation in order, the other may run between any two
Threads == {1, 2}

IdleThread == [pc |-> "idle", X |-> << >>, y |-> << >>, overlap |-> FALSE]

in_flight(t) == thr[t].pc \in {"while", "unpack", "read", "pop"}

ConcInit ==
    /\ GenBuilt /\ err = "none"
    /\ thr = [t \in Threads |-> IdleThread]
    /\ gen2 = NoGen /\ rng = << >> /\ resets = <<0, 0>>

\* self.current_batch = index (thread t asks for batch t - 1)
Begin(t) ==
    /\ thr[t].pc = "idle"
    /\ gen' = [gen EXCEPT !.current_batch = t - 1]
    /\ thr' = [thr EXCEPT ![t].pc = "while",
                          ![t].overlap = \E u \in Threads \ {t} : in_flight(u)]
    /\ UNCHANGED <<err, ret, lastOp, calls, epoch, gen2, rng, resets,
                   dsVars, callVars>>

\* while len(self.crop_stack_y) < self.batch_size:
While(t) ==
    /\ thr[t].pc = "while"
    /\ thr' = [thr EXCEPT ![t].pc =
                  IF Len(gen.crop_stack_y) < gen.batch_size THEN "unpack"
                                                            ELSE "read"]
    /\ UNCHANGED <<gen, err, ret, lastOp, calls, epoch, gen2, rng, resets,
                   dsVars, callVars>>

\*     self.unpack_trial()
Unpack(t) ==
    /\ thr[t].pc = "unpack"
    /\ LET r == unpack_trial(gen)
       IN  /\ gen' = r.self
           /\ thr' = [thr EXCEPT ![t].pc = IF r.err = "none" THEN "while"
                                           ELSE "raised"]
    /\ UNCHANGED <<err, ret, lastOp, calls, epoch, gen2, rng, resets,
                   dsVars, callVars>>

\* X = self.crop_stack_X[indexes, ...]; y = self.crop_stack_y[indexes]
Read(t) ==
    /\ thr[t].pc = "read"
    /\ LET b == read_batch(gen)
       IN  thr' = [thr EXCEPT ![t].pc = IF b.err = "none" THEN "pop"
                                        ELSE "raised",
                              ![t].X = b.X, ![t].y = b.y]
    /\ UNCHANGED <<gen, err, ret, lastOp, calls, epoch, gen2, rng, resets,
                   dsVars, callVars>>

\* the stack is cut down and the batch returned
Pop(t) ==
    /\ thr[t].pc = "pop"
    /\ gen' = pop_stack(gen)
    /\ thr' = [thr EXCEPT ![t].pc =
                  IF to_categorical(thr[t].y, gen.n_classes).err = "none"
                    THEN "done" ELSE "raised"]
    /\ UNCHANGED <<err, ret, lastOp, calls, epoch, gen2, rng, resets,
                   dsVars, callVars>>

NextConc ==
    \E t \in Threads : Begin(t) \/ While(t) \/ Unpack(t) \/ Read(t) \/ Pop(t)

SpecConc == ConcInit /\ [][NextConc]_vars

\* ---- two generators in one process.  random.shuffle is numpy's: it draws
\* ---- from the one global random state of the process, which rng follows
\* ---- as the permutations its next draws give.  The generator takes no
\* ---- seed, so "the same seed" is the caller seeding the global state
\* ---- before building each of the two: both constructors get the draw
\* ---- seed[1] and the state is left at Tail(seed).
\* two of the outcomes of a shuffle: the array as it was, and reversed
reversed(n) == [i \in 1..n |-> n - i]
SeedStreams(d) == [1..MaxDraws -> {arange(d), reversed(d)}]

TwoInit ==
    /\ \E d \in {MaxTrials}, h \in GenChannels, w \in {MaxSamples},
          batch_size \in {MaxBatch}, crop_step \in {1},
          shuffle \in BOOLEAN :
         \E y \in {[i \in 1..d |-> (i - 1) % 2]}, crop_sample_size \in {w - 1},
            seed \in SeedStreams(d) :
            LET c == __init__(Recording(d, h, w), y, batch_size, NoneArg,
                              crop_sample_size, crop_step, shuffle, seed[1])
            IN  /\ gen = c.self
                /\ err = c.err
                /\ gen2 = c.self
                /\ rng = Tail(seed)
    /\ err = "none"
    /\ resets = <<0, 0>> /\ thr = << >>
    /\ ret = NoBatch /\ lastOp = "__init__"
    /\ calls = 0 /\ epoch = 0
    /\ DsIdle /\ CallIdle

\* what random.shuffle leaves in an array of n entries, and the state after
drawn(self) == IF self.shuffle THEN Head(rng) ELSE arange(self.n_trials)
after_draw(self) == IF self.shuffle THEN Tail(rng) ELSE rng

SeededEpochEnd ==
    /\ resets[1] < MaxDraws - 1
    /\ gen.shuffle => rng # << >>
    /\ gen' = on_epoch_end(gen, drawn(gen))
    /\ rng' = after_draw(gen)
    /\ resets' = [resets EXCEPT ![1] = @ + 1]
    /\ err' = "none"
    /\ ret' = NoBatch
    /\ lastOp' = "on_epoch_end"
    /\ calls' = 0
    /\ epoch' = 1
    /\ UNCHANGED <<thr, gen2, dsVars, callVars>>

PeerEpochEnd ==
    /\ resets[2] < MaxDraws - 1
    /\ gen2.shuffle => rng # << >>
    /\ gen2' = on_epoch_end(gen2, drawn(gen2))
    /\ rng' = after_draw(gen2)
    /\ resets' = [resets EXCEPT ![2] = @ + 1]
    /\ lastOp' = "peer.on_epoch_end"
    /\ UNCHANGED <<gen, err, ret, calls, epoch, thr, dsVars, callVars>>

PeerGetItem(index) ==
    /\ gen2' = __getitem__(gen2, index).self
    /\ lastOp' = "peer.__getitem__"
    /\ UNCHANGED <<gen, err, ret, calls, epoch, thr, rng, resets,
                   dsVars, callVars>>

\* any other numpy.random call of the process
OtherDraw ==
    /\ rng # << >>
    /\ rng' = Tail(rng)
    /\ lastOp' = "numpy.random"
    /\ UNCHANGED <<gen, err, ret, calls, epoch, thr, gen2, resets,
                   dsVars, callVars>>

NextTwo ==
    \/ \E index \in BatchIndices : GetItem(index)
    \/ SeededEpochEnd
    \/ \E index \in {0} : PeerGetItem(index)
    \/ PeerEpochEnd
    \/ OtherDraw

SpecTwo == TwoInit /\ [][NextTwo]_vars

\* ---- direct calls of the static crop functions: the arguments are drawn
\* ---- first, the call then runs
CropXArgs ==
    {[fn |-> "crop_X", X |-> TrialData(t, h, w), y |-> << >>, label |-> 0,
      n_crops |-> n, crop_sample_size |-> W, crop_step |-> S] :
        t \in 0..(MaxTrials - 1), h \in ChannelCounts,
        w \in 1..MaxSamples, n \in 0..MaxCrops,
        W \in WindowSizes(MaxSamples), S \in Strides}

CropYArgs ==
    {[fn |-> "crop_y", X |-> << >>, y |-> << >>, label |-> l,
      n_crops |-> n, crop_sample_size |-> 0, crop_step |-> 0] :
        l \in ClassLabels, n \in 0..MaxCrops}

CropXYArgs ==
    UNION {{[fn |-> "crop_X_y", X |-> Recording(d, h, w), y |-> y,
             label |-> 0, n_crops |-> 0,
             crop_sample_size |-> W, crop_step |-> S] :
               h \in ChannelCounts, w \in 1..MaxSamples, y \in Labels(d),
               W \in WindowSizes(MaxSamples), S \in Strides} :
           d \in 0..MaxTrials}

Pending == [err |-> "pending", X |-> << >>, y |-> << >>, n |-> 0]

InitCall ==
    /\ GenIdle /\ DsIdle
    /\ \/ call \in CropXArgs
       \/ call \in CropYArgs
       \/ call \in CropXYArgs
    /\ result = Pending

CallCropX ==
    /\ call.fn = "crop_X" /\ result = Pending
    /\ LET r == crop_X(call.X, call.n_crops, call.crop_sample_size,
                       call.crop_step)
       IN  result' = [err |-> r.err, X |-> r.val, y |-> << >>,
                      n |-> call.n_crops]
    /\ UNCHANGED <<call, genVars, dsVars>>

CallCropY ==
    /\ call.fn = "crop_y" /\ result = Pending
    /\ LET r == crop_y(call.label, call.n_crops)
       IN  result' = [err |-> r.err, X |-> << >>, y |-> r.val,
                      n |-> call.n_crops]
    /\ UNCHANGED <<call, genVars, dsVars>>

CallCropXY ==
    /\ call.fn = "crop_X_y" /\ result = Pending
    /\ LET r == crop_X_y(call.X, call.y, call.crop_sample_size,
                         call.crop_step)
       IN  result' = [err |-> r.err, X |-> r.X, y |-> r.y,
                      n |-> crop_X_y_n_crops(ShapeW(call.X),
                                             call.crop_sample_size,
                                             call.crop_step)]
    /\ UNCHANGED <<call, genVars, dsVars>>

NextCall == CallCropX \/ CallCropY \/ CallCropXY

SpecCrop == InitCall /\ [][NextCall]_vars

\* ================================================================== claims
\* the crop at position q (0-based) of a partition of trials cut in
\* (trial index, window index) order, written from the sample values
PartitionCrop(self, q) ==
    LET t == q \div self.n_crops_for_trial
        i == q % self.n_crops_for_trial
    IN  [c \in 1..self.n_channels |->
            [j \in 1..self.crop_sample_size |->
                SampleValue(t, c - 1, i * self.crop_step + j - 1)]]

returned == lastOp = "__getitem__" /\ err = "none"

\* C1: every __getitem__ call that returns hands back exactly batch_size
\* crops and exactly batch_size label rows, the last batch of an epoch
\* included; a short batch is never returned.
C1_ExactBatch ==
    returned => /\ Len(ret.X) = gen.batch_size
                /\ Len(ret.y) = gen.batch_size

\* the last batch of an epoch whose crop total is no multiple of batch_size,
\* filled from two trials
C1_Witness ==
    /\ returned
    /\ calls = __len__(gen)
    /\ gen.n_crops % gen.batch_size # 0
    /\ Len(ret.X) = gen.batch_size
    /\ TrialOfCrop(ret.X[1][1]) # TrialOfCrop(ret.X[gen.batch_size][1])

\* C2: with shuffle=False and on_epoch_end run after every len(generator)
\* batches, the k-th batch of every epoch, the first and all later ones, is
\* crops (k-1)*batch_size .. k*batch_size-1 of the partition in (trial,
\* window) order; these crops are pairwise different, so the batches of an
\* epoch are disjoint and make up the first len*batch_size crops; with labels
\* below n_classes every one of the len batches is returned.
C2_labels_fit == \A t \in 1..Len(gen.y) : gen.y[t] < gen.n_classes

C2_Deterministic ==
    (constructed /\ ~gen.shuffle) =>
       /\ \A q1, q2 \in 0..(gen.n_crops - 1) :
             q1 # q2 => PartitionCrop(gen, q1) # PartitionCrop(gen, q2)
       /\ (lastOp = "__getitem__" /\ C2_labels_fit) => err = "none"
       /\ returned =>
             /\ Len(ret.X) = gen.batch_size
             /\ \A j \in 1..gen.batch_size :
                   ret.X[j] = << PartitionCrop(gen, (calls - 1) * gen.batch_size
                                                     + j - 1) >>

\* the last batch of a later epoch, cut from two trials, after the crops the
\* epoch before left over were dropped
C2_Witness ==
    /\ returned /\ ~gen.shuffle /\ epoch = 1
    /\ calls = __len__(gen)
    /\ gen.n_crops % gen.batch_size # 0
    /\ TrialOfCrop(ret.X[1][1]) # TrialOfCrop(ret.X[gen.batch_size][1])

\* n = ceil(a / b), said without a division: the least n with n * b >= a
IsCeil(n, a, b) == n * b >= a /\ (n - 1) * b < a

\* C3: for trials of L samples and a geometry with 1 <= W <= L, S >= 1,
\* crop_X_y computes n = ceil((L - W + 1) / S) crops per trial, and so does
\* EEGDataGenerator.__init__ for n_crops_for_trial; each trial yields exactly
\* n windows (the generator's first unpack included) and every window has
\* the trial's channel count and width W.
C3_CropCount ==
    LET X == call.X
        d == Len(X)
        L == ShapeW(X)
        W == call.crop_sample_size
        S == call.crop_step
        g == __init__(X, call.y, 1, NoneArg, W, S, FALSE, arange(d))
    IN  (call.fn = "crop_X_y" /\ result # Pending /\ d >= 1
         /\ 1 <= W /\ W <= L /\ S >= 1) =>
           /\ result.err = "none"
           /\ IsCeil(result.n, L - W + 1, S)
           /\ Len(result.X) = d * result.n
           /\ \A t \in 0..(d - 1) :
                 Cardinality({k \in 1..Len(result.X) :
                                 TrialOfCrop(result.X[k]) = t}) = result.n
           /\ \A k \in 1..Len(result.X) :
                 /\ Len(result.X[k]) = ShapeH(X)
                 /\ \A c \in 1..ShapeH(X) : Len(result.X[k][c]) = W
           /\ g.err = "none"
           /\ g.self.n_crops_for_trial = result.n
           /\ Len(g.self.crop_stack_X) = result.n
           /\ \A k \in 1..Len(g.self.crop_stack_X) :
                 /\ Len(g.self.crop_stack_X[k]) = ShapeH(X)
                 /\ \A c \in 1..ShapeH(X) : Len(g.self.crop_stack_X[k][c]) = W

\* two trials, a step that does not divide L - W + 1: the count is rounded up
C3_Witness ==
    /\ call.fn = "crop_X_y" /\ result.err = "none"
    /\ Len(call.X) = 2
    /\ call.crop_sample_size <= ShapeW(call.X)
    /\ (ShapeW(call.X) - call.crop_sample_size + 1) % call.crop_step # 0
    /\ result.n = 2
    /\ Len(result.X) = 4

\* window i (0-based) of a crop_X result is the trial's samples
\* i*S .. i*S+W-1 on every channel
C4_is_slice(i) ==
    \A c \in 1..Len(call.X) :
       /\ Len(result.X[i + 1][c]) = call.crop_sample_size
       /\ \A j \in 1..call.crop_sample_size :
             /\ i * call.crop_step + j <= Len(call.X[c])
             /\ result.X[i + 1][c][j] = call.X[c][i * call.crop_step + j]

\* C4 as claimed: crop_X(trial, n, W, S) returns, for any n, n windows,
\* window i being the slice [i*S, i*S+W) of the trial.
C4_AnyCount ==
    (call.fn = "crop_X" /\ result # Pending) =>
       /\ result.err = "none"
       /\ Len(result.X) = call.n_crops
       /\ \A i \in 0..(call.n_crops - 1) : C4_is_slice(i)

C4_in_bounds ==
    \/ call.n_crops = 0
    \/ (call.n_crops - 1) * call.crop_step + call.crop_sample_size
          <= Len(call.X[1])

\* C4 amended: when the last window ends inside the trial,
\* (n-1)*S + W <= L, crop_X returns n windows, window i being the slice
\* [i*S, i*S+W) of the trial on all channels, in increasing order of i.
C4_InBoundsCount ==
    (call.fn = "crop_X" /\ result # Pending /\ C4_in_bounds) =>
       /\ result.err = "none"
       /\ Len(result.X) = call.n_crops
       /\ \A i \in 0..(call.n_crops - 1) : C4_is_slice(i)

\* two windows of two channels, a step of 2
C4_Witness ==
    /\ call.fn = "crop_X" /\ result.err = "none" /\ C4_in_bounds
    /\ call.n_crops = 2 /\ call.crop_step = 2 /\ Len(call.X) = 2
    /\ result.X[2][2][1] = call.X[2][3]

\* C5: every crop carries the label of the trial it was cut from: in a
\* batch returned by __getitem__, row j of y is the one-hot row of the label
\* of the trial crop j of X comes from, whatever the trial order; after
\* make_crops, in each of the three partitions entry k of y is the label the
\* recording gives the trial entry k of X comes from.
C5_is_one_hot(row, label, n_classes) ==
    /\ Len(row) = n_classes
    /\ \A k \in 1..n_classes : row[k] = IF k = label + 1 THEN 1 ELSE 0

C5_labels_follow(X, y) ==
    /\ Len(X) = Len(y)
    /\ \A k \in 1..Len(X) : y[k] = raw.y[TrialOfCrop(X[k]) + 1]

C5_LabelReplication ==
    /\ returned =>
          \A j \in 1..Len(ret.X) :
             C5_is_one_hot(ret.y[j], gen.y[TrialOfCrop(ret.X[j][1]) + 1],
                           gen.n_classes)
    /\ dsOp = "make_crops" =>
          /\ C5_labels_follow(ds.X_train, ds.y_train)
          /\ C5_labels_follow(ds.X_valid, ds.y_valid)
          /\ C5_labels_follow(ds.X_test, ds.y_test)

\* a batch cut from two trials with different labels, taken in shuffled order
C5_Witness ==
    /\ returned /\ gen.shuffle /\ gen.indexes # arange(gen.n_trials)
    /\ Len(ret.X) >= 2
    /\ TrialOfCrop(ret.X[1][1]) # TrialOfCrop(ret.X[Len(ret.X)][1])
    /\ ret.y[1] # ret.y[Len(ret.y)]

\* C6: len(generator) = floor(n_crops / batch_size) with
\* n_crops = n_crops_for_trial * n_trials >= 0:
\* len * batch_size <= n_crops < (len + 1) * batch_size, and once the len
\* batches of an epoch are out, the crops not handed out (those left on the
\* stack and those of the trials not unpacked) number n_crops mod batch_size.
C6_Length ==
    constructed =>
       /\ gen.n_crops = gen.n_crops_for_trial * gen.n_trials
       /\ gen.n_crops >= 0
       /\ __len__(gen) * gen.batch_size <= gen.n_crops
       /\ gen.n_crops < (__len__(gen) + 1) * gen.batch_size
       /\ (calls = __len__(gen) /\ lastOp # "on_epoch_end") =>
             Len(gen.crop_stack_X)
               + (gen.n_trials - gen.next_to_unpack) * gen.n_crops_for_trial
             = gen.n_crops % gen.batch_size

\* an epoch of at least one batch that leaves crops behind
C6_Witness ==
    /\ returned /\ calls = __len__(gen)
    /\ gen.n_crops % gen.batch_size # 0
    /\ Len(gen.crop_stack_X) = gen.n_crops % gen.batch_size

\* C7: a caller that asks for at most len(generator) batches between two
\* on_epoch_end calls (and after __init__) never makes unpack_trial read
\* indexes past its end: no call raises IndexError on indexes, and whenever
\* a further batch is due and the stack is underfull, next_to_unpack is
\* below n_trials.
C7_NoExhaustedTrials ==
    constructed =>
       /\ err # "IndexError@indexes"
       /\ (calls < __len__(gen)
           /\ Len(gen.crop_stack_y) < gen.batch_size) =>
             gen.next_to_unpack < gen.n_trials

\* the last batch of a later epoch needed the last trial
C7_Witness ==
    /\ returned /\ epoch = 1 /\ calls = __len__(gen)
    /\ gen.n_trials = 2 /\ gen.next_to_unpack = gen.n_trials
    /\ TrialOfCrop(ret.X[gen.batch_size][1]) = At(gen.indexes, 1)

IsPermutation(indexes, n) ==
    /\ Len(indexes) = n
    /\ \A t \in 0..(n - 1) :
          Cardinality({i \in 1..n : indexes[i] = t}) = 1

\* C8 as claimed: a __getitem__(0) that follows a completed traversal, with
\* no on_epoch_end call in between, runs as if on_epoch_end had been run
\* first (regenerated indexes, next_to_unpack = 0).
C8_AutoReset ==
    [][(/\ lastOp = "__getitem__" /\ calls >= __len__(gen)
        /\ lastOp' = "__getitem__" /\ gen'.current_batch = 0) =>
          \E shuffled \in shuffle_outcomes(gen.n_trials) :
             LET g == __getitem__(on_epoch_end(gen, shuffled), 0)
             IN  gen' = g.self /\ err' = g.err]_vars

\* C8 amended: __getitem__ never runs on_epoch_end: a __getitem__ call, with
\* index 0 after a completed traversal or any other, leaves indexes as it is
\* and does not lower next_to_unpack; indexes is regenerated and
\* next_to_unpack set to 0 only by on_epoch_end, the hook the trainer calls
\* (and by __init__).
C8_ResetOnlyByHook ==
    [][/\ lastOp' = "__getitem__" =>
             /\ gen'.indexes = gen.indexes
             /\ gen'.next_to_unpack >= gen.next_to_unpack
       /\ lastOp' = "on_epoch_end" =>
             /\ gen'.next_to_unpack = 0
             /\ IsPermutation(gen'.indexes, gen.n_trials)]_vars

\* a __getitem__(0) after a completed traversal with no on_epoch_end before
\* it: the trials are exhausted and the call raises
C8_Witness ==
    /\ lastOp = "__getitem__" /\ gen.current_batch = 0
    /\ __len__(gen) >= 1 /\ calls = __len__(gen) + 1
    /\ gen.next_to_unpack = gen.n_trials
    /\ err = "IndexError@indexes"

\* C9: after on_epoch_end, run by __init__ or by the trainer, indexes is a
\* permutation of 0..n_trials-1, the identity when shuffle is False, and
\* right after on_epoch_end next_to_unpack = 0.
C9_EpochReset ==
    constructed =>
       /\ IsPermutation(gen.indexes, gen.n_trials)
       /\ ~gen.shuffle => \A i \in 1..gen.n_trials : gen.indexes[i] = i - 1
       /\ lastOp = "on_epoch_end" => gen.next_to_unpack = 0

\* a reshuffle to another order after all trials were unpacked
C9_Witness ==
    /\ lastOp = "on_epoch_end" /\ gen.shuffle
    /\ gen.n_trials = 2 /\ gen.indexes[1] = 1
    /\ gen.next_to_unpack = 0
    /\ Len(gen.crop_stack_X) > 0 /\ TrialOfCrop(gen.crop_stack_X[1]) = 1

\* the position (0-based) of a crop in the crop stream of the running
\* epoch: the trials in the order of indexes, the windows of a trial in order
StreamPos(self, win) ==
    LET k == CHOOSE i \in 1..Len(self.indexes) :
                 self.indexes[i] = TrialOfCrop(win)
    IN  (k - 1) * self.n_crops_for_trial
          + (OffsetOfCrop(win) \div self.crop_step)

\* what __getitem__(index) returns and leaves behind, current_batch aside
C10_outcome(index) ==
    LET g == __getitem__(gen, index)
    IN  [self |-> [g.self EXCEPT !.current_batch = NoneArg],
         err |-> g.err, X |-> g.X, y |-> g.y]

C10_index_free ==
    constructed =>
       \A i, j \in BatchIndices : C10_outcome(i) = C10_outcome(j)

C10_successive ==
    (/\ returned /\ lastOp' = "__getitem__" /\ err' = "none"
     /\ gen'.current_batch = gen.current_batch) =>
       /\ ret'.X # ret.X
       /\ \A j \in 1..gen.batch_size :
             StreamPos(gen', ret'.X[j][1])
               = StreamPos(gen, ret.X[gen.batch_size][1]) + j

split == dsOp = "from_epo_to_dataset" /\ dsErr = "none"

\* floor(train_len * validation_frac) of the call that made the split
C11_valid_len == FloorDiv(dsArgs[1] * dsArgs[3], dsArgs[4])

\* C11: from_epo_to_dataset puts raw trials [0, train_len - valid_len) in
\* train and [train_len - valid_len, train_len) in valid, in the recording's
\* order, with valid_len = floor(train_len * validation_frac): the two are
\* disjoint and together are the first train_len trials
C11_TrainValidSplit ==
    split =>
       LET train_len == dsArgs[1]
           valid_len == C11_valid_len
       IN  /\ ds.X_train = SubSeq(raw.X, 1, train_len - valid_len)
           /\ ds.y_train = SubSeq(raw.y, 1, train_len - valid_len)
           /\ ds.X_valid = SubSeq(raw.X, train_len - valid_len + 1, train_len)
           /\ ds.y_valid = SubSeq(raw.y, train_len - valid_len + 1, train_len)
           /\ ds.X_train \o ds.X_valid = SubSeq(raw.X, 1, train_len)
           /\ \A i \in 1..Len(ds.X_train), j \in 1..Len(ds.X_valid) :
                 TrialOfCrop(ds.X_train[i]) # TrialOfCrop(ds.X_valid[j])

\* two trials asked for train, half of them held out: one in each partition
C11_Witness ==
    /\ split /\ dsArgs[1] = 2 /\ C11_valid_len = 1
    /\ Len(ds.X_train) = 1 /\ Len(ds.X_valid) = 1
    /\ TrialOfCrop(ds.X_valid[1]) = 1

\* ---------------------------------------------------------------- C12
\* C12: for every test_len from 0 to the number of trials of the recording,
\* from_epo_to_dataset puts exactly test_len trials in test: the last
\* test_len trials of the recording, in its order (none when test_len = 0)
C12_TestTail ==
    split =>
       LET tot_len  == Len(raw.y)
           test_len == dsArgs[2]
       IN  /\ Len(ds.X_test) = test_len
           /\ ds.X_test = SubSeq(raw.X, tot_len - test_len + 1, tot_len)
           /\ ds.y_test = SubSeq(raw.y, tot_len - test_len + 1, tot_len)

\* ---------------------------------------------------------------- C13
\* the raw trial indices of a partition
TrialSet(X) == {TrialOfCrop(X[k]) : k \in 1..Len(X)}

\* C13: from_epo_to_dataset never returns a dataset in which a raw trial is
\* in more than one of train, valid and test: when train_len + test_len
\* exceeds the number of trials the call fails instead of returning (any
\* exception is taken for InvalidSplit)
C13_NoOverlap ==
    dsOp = "from_epo_to_dataset" =>
       /\ dsArgs[1] + dsArgs[2] > Len(raw.y) => dsErr # "none"
       /\ dsErr = "none" =>
             /\ TrialSet(ds.X_train) \cap TrialSet(ds.X_valid) = {}
             /\ TrialSet(ds.X_train) \cap TrialSet(ds.X_test) = {}
             /\ TrialSet(ds.X_valid) \cap TrialSet(ds.X_test) = {}

\* ---------------------------------------------------------------- C14
\* window i (0-based) of a trial: samples [i*S, i*S + W) of every channel
WindowOf(trial, i, W, S) ==
    [c \in 1..Len(trial) |-> SubSeq(trial[c], i * S + 1, i * S + W)]

\* (newX, newY) is (X, y) cropped: n entries per trial, entry t*n + i being
\* window i of trial t with the label of trial t
C14_cropped(X, y, newX, newY, W, S) ==
    LET n == crop_X_y_n_crops(ShapeW(X), W, S)
    IN  /\ Len(newX) = n * Len(X)
        /\ Len(newY) = Len(newX)
        /\ \A t \in 0..(Len(X) - 1) : \A i \in 0..(n - 1) :
              /\ newX[t * n + i + 1] = WindowOf(X[t + 1], i, W, S)
              /\ newY[t * n + i + 1] = y[t + 1]

\* C14: a make_crops call that returns has replaced each of the three
\* partitions by its crops in trial order: n = crop count entries per trial,
\* entry t*n + i being window i of the former trial t, and X and y of equal
\* length
C14_step ==
    (dsOp' = "make_crops" /\ dsErr' = "none") =>
       LET W == dsArgs'[1]
           S == dsArgs'[2]
       IN  /\ C14_cropped(ds.X_train, ds.y_train, ds'.X_train, ds'.y_train, W, S)
           /\ C14_cropped(ds.X_valid, ds.y_valid, ds'.X_valid, ds'.y_valid, W, S)
           /\ C14_cropped(ds.X_test, ds.y_test, ds'.X_test, ds'.y_test, W, S)

C14_CropsInTrialOrder == [][C14_step]_vars

\* two train trials with different labels cut in two windows each, and a
\* test trial cut in two
C14_Witness ==
    /\ dsOp = "make_crops" /\ dsErr = "none" /\ dsArgs = <<2, 1>>
    /\ Len(ds.X_train) = 4 /\ Len(ds.X_valid) = 0 /\ Len(ds.X_test) = 2
    /\ ds.y_train[2] # ds.y_train[3]
    /\ TrialOfCrop(ds.X_train[3]) = 1 /\ OffsetOfCrop(ds.X_train[4]) = 1

\* ---------------------------------------------------------------- C15
\* C15: a make_crops call on a dataset that a first make_crops call has
\* already cropped fails with AlreadyCropped, whatever its geometry, and
\* leaves the three partitions as the first call produced them (any
\* exception is taken for AlreadyCropped)
C15_step ==
    (dsOp = "make_crops" /\ dsErr = "none" /\ dsOp' = "make_crops") =>
       /\ dsErr' # "none"
       /\ ds' = ds

C15_AlreadyCropped == [][C15_step]_vars

\* ---------------------------------------------------------------- C16
\* C16: the crop count of trials of L samples fails when W > L, W <= 0 or
\* S <= 0: crop_X_y then raises, returning no count and no window (any
\* exception is taken for InvalidGeometry)
C16_InvalidGeometry ==
    LET L == ShapeW(call.X)
        W == call.crop_sample_size
        S == call.crop_step
    IN  (call.fn = "crop_X_y" /\ result # Pending /\ Len(call.X) >= 1
         /\ (W > L \/ W <= 0 \/ S <= 0)) =>
           /\ result.err # "none"
           /\ result.X = << >> /\ result.y = << >>

\* ---------------------------------------------------------------- C17
\* C17: EEGDataGenerator.__init__ validates its arguments: a generator whose
\* construction returned has batch_size > 0 and a geometry with
\* 1 <= crop_sample_size <= n_samples and crop_step >= 1, so that no
\* generator exists on which __len__ or __getitem__ fails for these reasons
C17_ValidatedConstruction ==
    constructed =>
       /\ gen.batch_size > 0
       /\ 1 <= gen.crop_sample_size /\ gen.crop_sample_size <= gen.n_samples
       /\ gen.crop_step >= 1

\* ---------------------------------------------------------------- C18
\* a dataset object exists (its last operation may have raised)
ds_exists ==
    dsOp # "none"
    /\ ~(dsOp \in {"__init__", "from_epo_to_dataset"} /\ dsErr # "none")

\* C18: EEGDataset.__init__ fails (AssertionError) whenever the X and y
\* arrays of train, valid or test differ in length, and only then; every
\* dataset that exists has X and y of equal length in all three partitions
C18_DimensionMismatch ==
    /\ dsOp = "__init__" =>
          ((dsArgs[1] # dsArgs[2] \/ dsArgs[3] # dsArgs[4]
              \/ dsArgs[5] # dsArgs[6]) <=> dsErr = "AssertionError")
    /\ ds_exists =>
          /\ Len(ds.X_train) = Len(ds.y_train)
          /\ Len(ds.X_valid) = Len(ds.y_valid)
          /\ Len(ds.X_test) = Len(ds.y_test)

\* six arrays of which only the test pair differs in length: refused
C18_Witness ==
    /\ dsOp = "__init__" /\ dsErr = "AssertionError"
    /\ dsArgs[1] = dsArgs[2] /\ dsArgs[1] > 0
    /\ dsArgs[3] = dsArgs[4] /\ dsArgs[5] # dsArgs[6]

\* ---------------------------------------------------------------- C19
\* C19: add_axis guards against double insertion: the first call on a
\* dataset wraps every entry of every partition in one axis of length 1
\* ((N, channels, samples) becomes (N, 1, channels, samples)), and a call on
\* a dataset that already has the axis leaves the partitions as they are
C19_step ==
    dsOp' = "add_axis" =>
       IF axes = 0
         THEN /\ ds'.X_train = NewAxis(ds.X_train)
              /\ ds'.X_valid = NewAxis(ds.X_valid)
              /\ ds'.X_test = NewAxis(ds.X_test)
         ELSE ds' = ds

\* every add_axis step changes axes
C19_SingleAxis == [][C19_step]_axes

\* ---------------------------------------------------------------- C20
\* every label of y is below n
C20_fits(y, n) == \A j \in 1..Len(y) : y[j] < n

\* newY is y one-hot encoded in rows of width n
C20_encoded(y, newY, n) ==
    /\ Len(newY) = Len(y)
    /\ \A j \in 1..Len(y) : C5_is_one_hot(newY[j], y[j], n)

\* C20: to_categorical with n_classes omitted takes as class count the
\* number of distinct labels of the train partition only, and encodes the
\* labels of train, valid and test as one-hot rows of that one width; the
\* call raises only when that count cannot hold a label (a label of some
\* partition is not below it, or the train partition is empty)
C20_step ==
    (dsOp' = "to_categorical" /\ dsArgs' = <<NoneArg>>) =>
       LET n == Cardinality({ds.y_train[j] : j \in 1..Len(ds.y_train)})
       IN  /\ dsErr' = "none" <=>
                 /\ Len(ds.y_train) > 0
                 /\ C20_fits(ds.y_train, n)
                 /\ C20_fits(ds.y_valid, n)
                 /\ C20_fits(ds.y_test, n)
           /\ dsErr' = "none" =>
                 /\ C20_encoded(ds.y_train, ds'.y_train, n)
                 /\ C20_encoded(ds.y_valid, ds'.y_valid, n)
                 /\ C20_encoded(ds.y_test, ds'.y_test, n)

\* every to_categorical step changes dsOp
C20_TrainOnlyClassCount == [][C20_step]_dsOp

\* two labels in train, one in valid and in test: their rows are 2 wide
C20_Witness ==
    /\ dsOp = "to_categorical" /\ dsErr = "none" /\ dsArgs = <<NoneArg>>
    /\ Len(ds.y_train) = 2 /\ ds.y_train[1] # ds.y_train[2]
    /\ Len(ds.y_valid) = 1 /\ Len(ds.y_valid[1]) = 2
    /\ Len(ds.y_test) = 1 /\ Len(ds.y_test[1]) = 2

\* C21: __getitem__ is not reentrant.  Whenever two calls on one generator
\* have both read their batch before either of them has cut the stack down,
\* the two hold the same batch_size crops and labels, so the same crops are
\* returned twice (and the second cut removes crops nobody has read).
C21_same_batch(t, u) ==
    /\ Len(thr[t].X) = gen.batch_size
    /\ thr[t].X = thr[u].X
    /\ thr[t].y = thr[u].y
    /\ thr[t].X = SubSeq(gen.crop_stack_X, 1, gen.batch_size)

C21_NotReentrant ==
    thr # << >> =>
      \A t \in Threads, u \in Threads :
         (t # u /\ thr[t].pc = "pop" /\ thr[u].pc = "pop") =>
            C21_same_batch(t, u)

\* both calls have returned, with the same crops
C21_Witness ==
    /\ thr # << >>
    /\ \A t \in Threads : thr[t].pc = "done"
    /\ thr[1].X = thr[2].X
    /\ thr[1].X # << >>

\* C22: distinct generators share no mutable state.  A __getitem__ or
\* on_epoch_end call on gen leaves gen2's stack, cursor and indexes as they
\* were, and leaves unchanged the trial order gen2's next on_epoch_end
\* call will set (for a shuffling generator, the next draw).
C22_next_order(self, stream) ==
    IF self.shuffle THEN Head(stream) ELSE arange(self.n_trials)

C22_step ==
    (lastOp' \in {"__getitem__", "on_epoch_end"} /\ rng' # << >>) =>
       /\ gen2' = gen2
       /\ C22_next_order(gen2', rng') = C22_next_order(gen2, rng)

C22_Independent == [][C22_step]_<<lastOp, calls, rng, resets>>

\* C24: shuffling draws only from an explicitly supplied seedable source.
\* Two generators built alike from the same seed have the same indexes
\* after the same number of on_epoch_end calls, whatever else is drawn.
C24_SeededOrder ==
    (gen2 # NoGen /\ resets[1] = resets[2]) => gen.indexes = gen2.indexes

\* C23: n_crops, n_crops_for_trial, __len__, batch_size and the crop
\* geometry are fixed at construction: no __getitem__ or on_epoch_end call
\* changes them, nor the trials they were computed from.
C23_fixed(self) ==
    <<self.n_crops, self.n_crops_for_trial, self.batch_size,
      self.crop_sample_size, self.crop_step,
      self.n_trials, self.n_channels, self.n_samples, self.n_classes,
      __len__(self)>>

C23_step ==
    constructed =>
       /\ C23_fixed(gen') = C23_fixed(gen)
       /\ gen'.X = gen.X /\ gen'.y = gen.y /\ gen'.shuffle = gen.shuffle
       /\ gen'.n_crops = gen'.n_trials * gen'.n_crops_for_trial

C23_FixedAtConstruction == [][C23_step]_vars

\* an epoch begun by a shuffling on_epoch_end, in an order other than the
\* identity, with the counts of the construction
C23_Witness ==
    /\ lastOp = "on_epoch_end" /\ gen.shuffle
    /\ gen.indexes # arange(gen.n_trials)
    /\ gen.n_crops = gen.n_trials * gen.n_crops_for_trial
    /\ gen.n_crops > 0 /\ __len__(gen) > 0

\* C25: right after construction, before any __getitem__, the stack is not
\* empty and holds exactly the n_crops_for_trial crops and labels of trial
\* indexes[0] in window order, and next_to_unpack = 1.
C25_first_trial ==
    /\ gen.next_to_unpack = 1
    /\ Len(gen.crop_stack_X) = gen.n_crops_for_trial
    /\ Len(gen.crop_stack_y) = gen.n_crops_for_trial
    /\ \A j \in 1..Len(gen.crop_stack_X) :
          /\ gen.crop_stack_X[j] =
               [c \in 1..gen.n_channels |->
                  [p \in 1..gen.crop_sample_size |->
                     At(gen.X, gen.indexes[1])[c][(j - 1) * gen.crop_step + p]]]
          /\ gen.crop_stack_y[j] = At(gen.y, gen.indexes[1])

C25_FirstTrialQueued ==
    (lastOp = "__init__" /\ err = "none") =>
       (C25_first_trial /\ gen.crop_stack_X # << >>)

\* C26: no crop carries over an epoch boundary.  When on_epoch_end runs
\* after exactly len(generator) batches, fewer than batch_size crops are left
\* on the stack; the first unpack_trial after it replaces the stack by the
\* crops of trial indexes[0] instead of appending to it; so batch k of the
\* new epoch is crops (k-1)*batch_size .. k*batch_size-1 of the stream cut
\* in the order of the new indexes.
C26_replaced(self) ==
    LET u == unpack_trial(self)
    IN  /\ u.err = "none"
        /\ Len(u.self.crop_stack_X) = self.n_crops_for_trial
        /\ \A j \in 1..Len(u.self.crop_stack_X) :
              /\ TrialOfCrop(u.self.crop_stack_X[j]) = self.indexes[1]
              /\ StreamPos(self, u.self.crop_stack_X[j]) = j - 1

C26_NoCarryOver ==
    constructed =>
       /\ calls = __len__(gen) => Len(gen.crop_stack_X) < gen.batch_size
       /\ (lastOp = "on_epoch_end" /\ gen.n_crops_for_trial > 0) =>
             C26_replaced(gen)
       /\ (returned /\ epoch = 1) =>
             \A j \in 1..Len(ret.X) :
                StreamPos(gen, ret.X[j][1]) = (calls - 1) * gen.batch_size + j - 1

\* the first batch of a later epoch, taken in an order that starts with
\* another trial than the crops the epoch before left on the stack
C26_Witness ==
    /\ returned /\ epoch = 1 /\ calls = 1
    /\ gen.shuffle /\ gen.n_trials = 2
    /\ gen.n_crops % gen.batch_size # 0
    /\ TrialOfCrop(ret.X[1][1]) = gen.indexes[1]
    /\ StreamPos(gen, ret.X[1][1]) = 0

\* C27: with the window count n that crop_X_y computes for trials of L
\* samples, 1 <= W <= L and S >= 1, every window is in bounds: for all i in
\* [0, n), i*S + W <= L; window i of every trial is the samples
\* i*S .. i*S+W-1 of that trial on every channel, all W of them.
C27_window(k, n) ==
    LET t == (k - 1) \div n
        i == (k - 1) % n
    IN  /\ Len(result.X[k]) = ShapeH(call.X)
        /\ \A c \in 1..ShapeH(call.X) :
              /\ Len(result.X[k][c]) = call.crop_sample_size
              /\ \A j \in 1..call.crop_sample_size :
                    result.X[k][c][j] =
                       SampleValue(t, c - 1, i * call.crop_step + j - 1)

C27_WindowsInBounds ==
    LET L == ShapeW(call.X)
        W == call.crop_sample_size
        S == call.crop_step
        n == result.n
    IN  (call.fn = "crop_X_y" /\ result # Pending /\ Len(call.X) >= 1
         /\ 1 <= W /\ W <= L /\ S >= 1) =>
           /\ n >= 1
           /\ \A i \in 0..(n - 1) : i * S + W <= L
           /\ result.err = "none"
           /\ Len(result.X) = n * Len(call.X)
           /\ \A k \in 1..Len(result.X) : C27_window(k, n)

\* a step of 2 that divides L - W + 1 = 2: two windows would not fit
C27_Witness ==
    /\ call.fn = "crop_X_y" /\ result.err = "none"
    /\ ShapeW(call.X) = 3 /\ call.crop_sample_size = 2 /\ call.crop_step = 2
    /\ Len(call.X) = 2 /\ ShapeH(call.X) = 2
    /\ result.n = 1 /\ Len(result.X) = 2
    /\ result.X[2][2][2] = SampleValue(1, 1, 1)

\* C28: eager and streaming cropping agree.  With shuffle=False, batch k of
\* an epoch of the generator is entries (k-1)*batch_size+1 .. k*batch_size
\* of the training partition that make_crops, add_axis and to_categorical
\* produce from the same trials, labels and geometry: the len(generator)
\* batches of an epoch, one after the other, are its first
\* len*batch_size entries.
C28_eager(self) ==
    LET d == EEGDataset(self.X, self.y, << >>, << >>, << >>, << >>)
        m == make_crops(d.self, self.crop_sample_size, self.crop_step)
        c == to_categorical(m.self.y_train, self.n_classes)
    IN  [err |-> IF d.err # "none" THEN d.err
                 ELSE IF m.err # "none" THEN m.err ELSE c.err,
         X |-> add_axis(m.self).X_train,
         y |-> c.val]

C28_EagerStreamingAgree ==
    (returned /\ ~gen.shuffle) =>
       LET e == C28_eager(gen)
       IN  /\ e.err = "none"
           /\ Len(e.X) = gen.n_crops
           /\ calls * gen.batch_size <= Len(e.X)
           /\ ret.X = SubSeq(e.X, (calls - 1) * gen.batch_size + 1,
                             calls * gen.batch_size)
           /\ ret.y = SubSeq(e.y, (calls - 1) * gen.batch_size + 1,
                             calls * gen.batch_size)

\* the second batch of a later epoch, cut from two trials with two labels
C28_Witness ==
    /\ returned /\ ~gen.shuffle /\ epoch = 1 /\ calls = 2
    /\ gen.n_trials = 2 /\ gen.y[1] # gen.y[2]
    /\ TrialOfCrop(ret.X[1][1]) = 0
    /\ TrialOfCrop(ret.X[gen.batch_size][1]) = 1
    /\ ret.y[1] # ret.y[gen.batch_size]

\* C29: the stack is bounded.  In every state of a constructed generator it
\* holds fewer than batch_size + n_crops_for_trial crops, and after every
\* __getitem__ that found it underfull and returned, fewer than
\* n_crops_for_trial, whatever the number of trials and of epochs run.
\* The stack is longest inside __getitem__, between the while loop and the
\* cut: that state is refill(gen).self.
C29_below(self) ==
    /\ Len(self.crop_stack_X) < self.batch_size + self.n_crops_for_trial
    /\ Len(self.crop_stack_y) < self.batch_size + self.n_crops_for_trial

C29_bound == constructed => (C29_below(gen) /\ C29_below(refill(gen).self))

C29_step ==
    (constructed /\ lastOp' = "__getitem__" /\ err' = "none"
     /\ Len(gen.crop_stack_y) < gen.batch_size) =>
        /\ Len(gen'.crop_stack_X) < gen'.n_crops_for_trial
        /\ Len(gen'.crop_stack_y) < gen'.n_crops_for_trial

C29_BoundedQueue == []C29_bound /\ [][C29_step]_vars

\* a batch in a later epoch that needed two trials and left two crops behind
C29_Witness ==
    /\ returned /\ epoch = 1
    /\ gen.n_crops_for_trial = 3 /\ gen.next_to_unpack = 2
    /\ Len(gen.crop_stack_X) = 2

\* C30: the crop stack and the label stack stay parallel.  In every state
\* after construction they have the same length and entry j of
\* crop_stack_y is the label of the trial entry j of crop_stack_X was cut
\* from; the while loop appends to both, and a __getitem__ that returns
\* removes the same leading batch_size entries from both.
C30_parallel(self) ==
    /\ Len(self.crop_stack_X) = Len(self.crop_stack_y)
    /\ \A j \in 1..Len(self.crop_stack_X) :
          self.crop_stack_y[j] =
             self.y[TrialOfCrop(self.crop_stack_X[j]) + 1]

C30_after(stack, n) == SubSeq(stack, n + 1, Len(stack))

\* what the while loop does to a stack: entries are added behind the ones
\* it holds, unless the loop runs first thing in an epoch (next_to_unpack
\* = 0 on an underfull stack), when unpack_trial starts it afresh
C30_grown(before, after) ==
    IF gen.next_to_unpack = 0 /\ Len(gen.crop_stack_y) < gen.batch_size
      THEN Len(after) % gen.n_crops_for_trial = 0
      ELSE /\ Len(after) >= Len(before)
           /\ SubSeq(after, 1, Len(before)) = before

C30_step ==
    (constructed /\ lastOp' = "__getitem__" /\ err' = "none") =>
       LET r == refill(gen).self
       IN  /\ gen'.crop_stack_X = C30_after(r.crop_stack_X, gen.batch_size)
           /\ gen'.crop_stack_y = C30_after(r.crop_stack_y, gen.batch_size)
           /\ C30_grown(gen.crop_stack_X, r.crop_stack_X)
           /\ C30_grown(gen.crop_stack_y, r.crop_stack_y)

C30_ParallelQueues ==
    /\ [](constructed => (C30_parallel(gen) /\ C30_parallel(refill(gen).self)))
    /\ [][C30_step]_vars

\* crops of two trials with different labels on the stack, in shuffled order
C30_Witness ==
    /\ returned /\ gen.shuffle /\ gen.indexes # arange(gen.n_trials)
    /\ Len(gen.crop_stack_X) = 2
    /\ TrialOfCrop(gen.crop_stack_X[1]) = TrialOfCrop(gen.crop_stack_X[2])
    /\ TrialOfCrop(ret.X[1][1]) # TrialOfCrop(gen.crop_stack_X[1])
    /\ gen.y[1] # gen.y[2]

=========================================================================
